---- MODULE Spec2Model ----
(***************************************************************************)
(* A model of proof.analysis.Analysis (src/proof/analysis.py): a tree of   *)
(* step functions whose outputs are cached on disk under a fingerprint of  *)
(* the step's source text and the names of its ancestors.                  *)
(*                                                                         *)
(* The Python call stack of the recursive Analysis.run is the variable     *)
(* stack; the objects that data / local_data refer to live in heap, so     *)
(* that aliasing between a parent's and a child's state is expressible.    *)
(***************************************************************************)
EXTENDS Integers, Sequences, FiniteSets, TLC

\* Bounds of the model.
MaxNodes == 3       \* Analysis objects in one tree
NumFuncs == 2       \* distinct step functions (each has its own __name__)
NumVersions == 2    \* versions of the source text a step function may have
MaxRuns == 3        \* top-level run() calls in one behaviour

Funcs == 1..NumFuncs
Versions == 1..NumVersions
Refs == 0..MaxNodes

\* The separator of '\n'.join(trace); no function name contains it.
NL == <<0>>

VARIABLES
    src,         \* src[f]: which version of f's source text inspect.getsource returns
    func,        \* func[n]: self._func of node n (nodes are 1..Len(func), 1 is the root)
    parent,      \* parent[n]: self._parent (0 is None)
    children,    \* children[n]: self._next_analyses
    cache_dir,   \* cache_dir[n]: self._cache_dir
    registered,  \* the root's self._registered_cache_paths (a list that is only
                 \* appended to and tested with "in": kept as the set of its elements)
    dirExists,   \* os.path.exists(self._cache_dir)
    disk,        \* the *.cache files of the cache directory: path -> blob
    heap,        \* the dict objects: heap[0] is the default argument data={}
    stack,       \* the frames of Analysis.run, outermost first
    runState,    \* "idle", "running", "done" or "aborted": the top-level run() call
    runNode,     \* the node the top-level run() was called on
    abortCause,  \* what raised: "none", "step", "save" or "load"
    status,      \* status[n] in the current run: "pending", "loaded", "executed", "failed"
    out,         \* out[n]: local_data of n when it was loaded or executed
    gcCount,     \* calls of _cleanup_cache_files in the current run
    log,         \* what the current run did, in order: <<event, node>> with event
                 \* "run" (run() entered), "func" (self._func called), "save"
                 \* (_save_cache returned), "load" (_load_cache returned) or
                 \* "return" (run() returned)
    runs,        \* top-level run() calls so far
    last,        \* the last top-level run, if it was a completed run of the root
    prev         \* what last was when the current run started

vars == <<src, func, parent, children, cache_dir, registered, dirExists, disk, heap,
          stack, runState, runNode, abortCause, status, out, gcCount, log, runs,
          last, prev>>

treeVars == <<func, parent, children, cache_dir>>
runVars == <<runState, runNode, abortCause, status, out, gcCount>>
histVars == <<last, prev>>

Nodes == 1..Len(func)

----------------------------------------------------------------------------
\* The step functions and the blobs.

\* func.__name__
name(n) == func[n]

\* inspect.getsource(f): the text of version v of function f. Every text is
\* different from every name and from the separator.
getsource(f, v) == <<NumFuncs + (f - 1) * NumVersions + v>>

\* What calling version v of step function f does to the state it is given.
\* Step functions are opaque: the state records which steps were applied.
Apply(f, v, state) == Append(state, <<f, v>>)

\* proof.never_cache: the step functions that carry the never-cache marker.
never_cache == {NumFuncs}

\* bz2 + pickle.dumps of a state, and an unreadable file.
dumps(state) == [valid |-> TRUE, pickle |-> state]
Truncated == [valid |-> FALSE, pickle |-> <<>>]
loads(blob) == blob.pickle

----------------------------------------------------------------------------
\* Analysis._trace, _root, _fingerprint, _cache_path, _check_cache.
\* utils.memoize never assigns memo, so each of them is computed anew at
\* every call, from the tree and the source text as they are then.

RECURSIVE trace(_)
\* utils.memoize: memo is set to None when the method is decorated and the
\* wrapper never assigns it, so every call computes the value again.
memo == "None"

memoize(value) == IF memo # "None" THEN memo ELSE value

trace(n) == memoize(IF parent[n] # 0 THEN Append(trace(parent[n]), n) ELSE <<n>>)

root(n) == memoize(trace(n)[1])

RECURSIVE join(_, _)
join(sep, names) ==
    IF Len(names) = 0 THEN <<>>
    ELSE IF Len(names) = 1 THEN <<names[1]>>
    ELSE <<names[1]>> \o sep \o join(sep, Tail(names))

traceNames(n) == [i \in 1..Len(trace(n)) |-> name(trace(n)[i])]

\* md5 is taken to be free of collisions: the digest is the hashed text.
fingerprintOf(n, v) == join(NL, traceNames(n)) \o getsource(func[n], v)

fingerprint(n) == memoize(fingerprintOf(n, src[func[n]]))

\* os.path.join(self._cache_dir, '%s.cache' % fingerprint)
cache_pathOf(n, v) == <<cache_dir[n]>> \o fingerprintOf(n, v)

cache_path(n) == memoize(<<cache_dir[n]>> \o fingerprint(n))

\* A check that never finds the file.
check_cache_miss(n) == FALSE

check_cache(n) == cache_path(n) \in DOMAIN disk

Write(d, path, blob) == [p \in DOMAIN d \cup {path} |-> IF p = path THEN blob ELSE d[p]]

\* The state the step function was given is saved, not the one it returned.
save_cache_input(d, n, state) ==
    Write(d, cache_path(n), dumps(SubSeq(state, 1, Len(state) - 1)))

\* _save_cache when nothing fails.
save_cache(d, n, state) == Write(d, cache_path(n), dumps(state))

\* _register_cache
register_cache(reg, path) == reg \cup {path}

\* _cleanup_cache_files: the *.cache files of directory dir that are not
\* registered are removed.
cleanup_cache_files(d, dir, reg) ==
    [p \in {q \in DOMAIN d : q[1] # dir \/ q \in reg} |-> d[p]]

\* The new node put in front of the receiver's children.
adopt_first(ch, p, n) == [ch EXCEPT ![p] = <<n>> \o @]

\* self._next_analyses.append(analysis) of then(), on node p.
adopt(ch, p, n) == [ch EXCEPT ![p] = Append(@, n)]

\* Every child iterated twice.
next_analyses_twice(n) == children[n] \o children[n]

\* The children in the reverse of the order they were added in.
next_analyses_reversed(n) ==
    [i \in 1..Len(children[n]) |-> children[n][Len(children[n]) + 1 - i]]

\* What "for analysis in self._next_analyses" of run() iterates over.
next_analyses(n) == children[n]

\* local_data = data: no copy, the same object.
deepcopy_alias(d, data) == data

\* No copy of the default argument: the step function works on the shared {}.
deepcopy_default(d, data) == IF data = 0 THEN 0 ELSE d

\* deepcopy(data) for the frame at depth d: a new object.
deepcopy(d, data) == d

\* The test of line 203 left out: every node cleans up.
isRoot_always(n) == TRUE

\* self._root() is self
isRoot(n) == root(n) = n

\* The exception caught by the caller's loop, which goes on with the next child.
raise_caught(stk) == SubSeq(stk, 1, Len(stk) - 1)

\* An exception raised in a frame of run(): run() has no try/except, so it
\* leaves every frame and reaches the caller of the top-level run().
raise(stk) == <<>>

----------------------------------------------------------------------------
\* The state after construction: Analysis(func), nothing run, no cache directory.

\* The nodes a tree may have: up to MaxNodes built with then(), and one more
\* in the tree of InitDeep.
NodeIds == 1..(MaxNodes + 1)
NoFiles == [p \in {} |-> Truncated]
NoRun == [valid |-> FALSE, src |-> [f \in Funcs |-> 1],
          out |-> [n \in NodeIds |-> <<>>]]

Init ==
    /\ src = [f \in Funcs |-> 1]
    /\ func \in {<<f>> : f \in Funcs}
    /\ parent = <<0>>
    /\ children = << <<>> >>
    /\ cache_dir = <<".proof">>
    /\ registered = {}
    /\ dirExists = FALSE
    /\ disk = NoFiles
    /\ heap = [r \in Refs |-> <<>>]
    /\ stack = <<>>
    /\ runState = "idle"
    /\ runNode = 1
    /\ abortCause = "none"
    /\ status = [n \in NodeIds |-> "pending"]
    /\ out = [n \in NodeIds |-> <<>>]
    /\ gcCount = 0
    /\ log = <<>>
    /\ runs = 0
    /\ last = NoRun
    /\ prev = NoRun

----------------------------------------------------------------------------
\* What happens between top-level run() calls.

\* The record of the last run is about the program as it was run: it is
\* dropped when the program changes.
Forget ==
    /\ runState' = "idle"
    /\ runNode' = 1
    /\ abortCause' = "none"
    /\ status' = [n \in NodeIds |-> "pending"]
    /\ out' = [n \in NodeIds |-> <<>>]
    /\ gcCount' = 0
    /\ log' = <<>>

\* The script that builds the tree (src/example.py, lines 35-38) is started
\* again in a new process: the same tree of new Analysis objects, each with
\* an empty _registered_cache_paths (line 50); the files stay.
NewProcess ==
    /\ stack = <<>>
    /\ runs > 0
    /\ registered' = {}
    /\ heap' = [r \in Refs |-> <<>>]
    /\ Forget
    /\ UNCHANGED <<src, treeVars, dirExists, disk, stack, runs>>

\* p.then(f), while the tree is built: before its first run.
then(p, f) ==
    /\ stack = <<>>
    /\ runs = 0
    /\ Len(func) < MaxNodes
    /\ p \in Nodes
    /\ func' = Append(func, f)
    /\ parent' = Append(parent, p)
    /\ cache_dir' = Append(cache_dir, cache_dir[p])
    /\ children' = adopt(Append(children, <<>>), p, Len(func) + 1)
    /\ Forget
    /\ UNCHANGED <<src, registered, dirExists, disk, heap, stack, runs>>

\* The source file is edited: inspect.getsource(f) returns another text.
Edit(f, v) ==
    /\ stack = <<>>
    /\ v # src[f]
    /\ src' = [src EXCEPT ![f] = v]
    /\ Forget
    /\ UNCHANGED <<treeVars, registered, dirExists, disk, heap, stack, runs>>

----------------------------------------------------------------------------
\* Analysis.run

Frame(n, data, refresh) ==
    [node |-> n, data |-> data, refresh |-> refresh, local |-> 0, next |-> 1,
     phase |-> "enter"]

depth == Len(stack)
top == stack[depth]

\* The objects of the frames that are left are garbage.
Release(h, from) == [r \in Refs |-> IF r >= from /\ r > 0 THEN <<>> ELSE h[r]]

\* The current (or last) top-level run() was called on the root.
rootRun == runNode = 1

\* n.run() called from the top level: data is the default {}, refresh is False.
\* Line 172 sets self._registered_fingerprints, an attribute nothing reads;
\* registered (_registered_cache_paths) is left as it is.
Run(n) ==
    /\ stack = <<>>
    /\ n \in Nodes
    /\ runs < MaxRuns
    /\ runs' = runs + 1
    /\ stack' = <<Frame(n, 0, FALSE)>>
    /\ runState' = "running"
    /\ runNode' = n
    /\ abortCause' = "none"
    /\ status' = [m \in NodeIds |-> "pending"]
    /\ out' = [m \in NodeIds |-> <<>>]
    /\ gcCount' = 0
    /\ log' = << <<"run", n>> >>
    /\ UNCHANGED <<src, treeVars, registered, dirExists, disk, heap>>

Abort(cause) ==
    /\ stack' = raise(stack)
    /\ heap' = Release(heap, Len(raise(stack)) + 1)
    /\ runState' = IF raise(stack) = <<>> THEN "aborted" ELSE runState
    /\ abortCause' = cause
    /\ status' = [status EXCEPT ![top.node] = "failed"]
    /\ log' = IF cause = "load" THEN log ELSE Append(log, <<"func", top.node>>)
    /\ UNCHANGED <<src, treeVars, registered, runNode, out, gcCount, runs>>

\* Lines 174-180 and 189-196: the step function runs on a copy of data and
\* its result is saved.
Execute ==
    /\ stack # <<>>
    /\ top.phase = "enter"
    /\ top.refresh \/ ~check_cache(top.node)
    /\ LET n == top.node
           loc == deepcopy(depth, top.data)
           h1 == [heap EXCEPT ![loc] = heap[top.data]]
           h2 == [h1 EXCEPT ![loc] = Apply(func[n], src[func[n]], h1[loc])]
       IN /\ heap' = h2
          /\ dirExists' = TRUE
          /\ disk' = save_cache(disk, n, h2[loc])
          /\ stack' = [stack EXCEPT ![depth] =
                          [top EXCEPT !.local = loc, !.refresh = TRUE, !.phase = "loop"]]
          /\ status' = [status EXCEPT ![n] = "executed"]
          /\ out' = [out EXCEPT ![n] = h2[loc]]
          /\ log' = log \o << <<"func", n>>, <<"save", n>> >>
    /\ UNCHANGED <<src, treeVars, registered, runState, runNode, abortCause,
                   gcCount, runs>>

\* self._func(local_data) raises.
StepFails ==
    /\ stack # <<>>
    /\ top.phase = "enter"
    /\ top.refresh \/ ~check_cache(top.node)
    /\ Abort("step")
    /\ UNCHANGED <<dirExists, disk>>

\* _save_cache raises: in os.makedirs (line 119), in opening the file (line
\* 121), in pickle.dumps or in f.write (line 122). The file is opened with
\* mode 'w' before the state is serialised, so from then on the old blob is gone.
SaveFails(at) ==
    /\ stack # <<>>
    /\ top.phase = "enter"
    /\ top.refresh \/ ~check_cache(top.node)
    /\ at = "makedirs" => ~dirExists
    /\ dirExists' = (dirExists \/ at # "makedirs")
    /\ disk' = IF at \in {"makedirs", "open"} THEN disk
               ELSE Write(disk, cache_path(top.node), Truncated)
    /\ Abort("save")

\* Lines 182-187: the blob exists and is read.
Load ==
    /\ stack # <<>>
    /\ top.phase = "enter"
    /\ ~top.refresh
    /\ check_cache(top.node)
    /\ disk[cache_path(top.node)].valid
    /\ LET n == top.node
           state == loads(disk[cache_path(n)])
       IN /\ heap' = [heap EXCEPT ![depth] = state]
          /\ stack' = [stack EXCEPT ![depth] =
                          [top EXCEPT !.local = depth, !.phase = "loop"]]
          /\ status' = [status EXCEPT ![n] = "loaded"]
          /\ out' = [out EXCEPT ![n] = state]
          /\ log' = Append(log, <<"load", n>>)
    /\ UNCHANGED <<src, treeVars, registered, dirExists, disk, runState, runNode,
                   abortCause, gcCount, runs>>

\* Lines 129-130: the blob exists and bz2 or pickle.loads raises.
LoadFails ==
    /\ stack # <<>>
    /\ top.phase = "enter"
    /\ ~top.refresh
    /\ check_cache(top.node)
    /\ ~disk[cache_path(top.node)].valid
    /\ Abort("load")
    /\ UNCHANGED <<dirExists, disk>>

\* Lines 198-199: the next child is run with local_data and refresh.
Call ==
    /\ stack # <<>>
    /\ top.phase = "loop"
    /\ top.next <= Len(next_analyses(top.node))
    /\ stack' = Append([stack EXCEPT ![depth] = [top EXCEPT !.next = @ + 1]],
                       Frame(next_analyses(top.node)[top.next], top.local, top.refresh))
    /\ log' = Append(log, <<"run", next_analyses(top.node)[top.next]>>)
    /\ UNCHANGED <<src, treeVars, registered, dirExists, disk, heap, runVars, runs>>

\* Lines 201-204: the loop is over; the path is registered with the root, and
\* the root cleans the cache directory.
Return ==
    /\ stack # <<>>
    /\ top.phase = "loop"
    /\ top.next > Len(next_analyses(top.node))
    /\ LET n == top.node
           reg == register_cache(registered, cache_path(n))
       IN /\ registered' = reg
          /\ disk' = IF isRoot(n) THEN cleanup_cache_files(disk, cache_dir[n], reg)
                      ELSE disk
          /\ gcCount' = IF isRoot(n) THEN gcCount + 1 ELSE gcCount
    /\ stack' = SubSeq(stack, 1, depth - 1)
    /\ heap' = Release(heap, depth)
    /\ runState' = IF depth = 1 THEN "done" ELSE runState
    /\ log' = Append(log, <<"return", top.node>>)
    /\ UNCHANGED <<src, treeVars, dirExists, runNode, abortCause, status, out, runs>>

----------------------------------------------------------------------------
\* The record of earlier runs, kept beside the program for the claims about
\* two runs in a row: last is the sources and the resulting states of the last
\* top-level run if it was a completed run of the root, and prev is what last
\* was when the current run started.

HistChange == prev' = NoRun /\ last' = last

HistRun == prev' = last /\ last' = last

HistStep ==
    /\ prev' = prev
    /\ last' = IF runState' = "running" THEN last
               ELSE IF runState' = "done" /\ rootRun
                    THEN [valid |-> TRUE, src |-> src, out |-> out']
                    ELSE NoRun

Next ==
    \/ NewProcess /\ HistChange
    \/ (\E p \in NodeIds, f \in Funcs : then(p, f)) /\ HistChange
    \/ (\E f \in Funcs, v \in Versions : Edit(f, v)) /\ HistChange
    \/ (\E n \in NodeIds : Run(n)) /\ HistRun
    \/ Execute /\ HistStep
    \/ StepFails /\ HistStep
    \/ (\E at \in {"makedirs", "open", "dumps", "write"} : SaveFails(at)) /\ HistStep
    \/ Load /\ HistStep
    \/ LoadFails /\ HistStep
    \/ Call /\ HistStep
    \/ Return /\ HistStep

Spec == Init /\ [][Next]_vars

\* A tree deep enough for a subtree to be left before a sibling is entered,
\* built by root = Analysis(f1); n2 = root.then(f2); n3 = n2.then(f3); ...;
\* and last root.then(f): a chain of MaxNodes nodes, and a second child of
\* the root. The root's step function is the first one (the functions differ
\* in nothing but their names).
InitDeep ==
    /\ src = [f \in Funcs |-> 1]
    /\ func \in {fn \in [NodeIds -> Funcs] : fn[1] = 1}
    /\ parent = [n \in NodeIds |-> IF n = MaxNodes + 1 THEN 1 ELSE n - 1]
    /\ children = [n \in NodeIds |->
                      IF n = 1 THEN <<2, MaxNodes + 1>>
                      ELSE IF n < MaxNodes THEN <<n + 1>>
                      ELSE <<>>]
    /\ cache_dir = [n \in NodeIds |-> ".proof"]
    /\ registered = {}
    /\ dirExists = FALSE
    /\ disk = NoFiles
    /\ heap = [r \in Refs |-> <<>>]
    /\ stack = <<>>
    /\ runState = "idle"
    /\ runNode = 1
    /\ abortCause = "none"
    /\ status = [n \in NodeIds |-> "pending"]
    /\ out = [n \in NodeIds |-> <<>>]
    /\ gcCount = 0
    /\ log = <<>>
    /\ runs = 0
    /\ last = NoRun
    /\ prev = NoRun

NextDeep ==
    \/ NewProcess /\ HistChange
    \/ (\E f \in Funcs, v \in Versions : Edit(f, v)) /\ HistChange
    \/ (\E n \in NodeIds : Run(n)) /\ HistRun
    \/ Execute /\ HistStep
    \/ StepFails /\ HistStep
    \/ (\E at \in {"makedirs", "open", "dumps", "write"} : SaveFails(at)) /\ HistStep
    \/ Load /\ HistStep
    \/ LoadFails /\ HistStep
    \/ Call /\ HistStep
    \/ Return /\ HistStep

SpecDeep == InitDeep /\ [][NextDeep]_vars

\* The program as src/example.py uses it: run() is only ever called on the root.
NextRootRuns ==
    \/ NewProcess /\ HistChange
    \/ (\E p \in NodeIds, f \in Funcs : then(p, f)) /\ HistChange
    \/ (\E f \in Funcs, v \in Versions : Edit(f, v)) /\ HistChange
    \/ Run(1) /\ HistRun
    \/ Execute /\ HistStep
    \/ StepFails /\ HistStep
    \/ (\E at \in {"makedirs", "open", "dumps", "write"} : SaveFails(at)) /\ HistStep
    \/ Load /\ HistStep
    \/ LoadFails /\ HistStep
    \/ Call /\ HistStep
    \/ Return /\ HistStep

SpecRootRuns == Init /\ [][NextRootRuns]_vars

----------------------------------------------------------------------------
\* The claims.

ancestors(n) == {trace(n)[i] : i \in 1..(Len(trace(n)) - 1)}
descendants(n) == {m \in Nodes : n \in ancestors(m)}
Visited(n) == status[n] \in {"loaded", "executed"}
CompletedRootRun == runState = "done" /\ rootRun
\* The nodes whose source differs from what it was in the previous run.
Edited == {n \in Nodes : prev.src[func[n]] # src[func[n]]}

C2_EditForcesReexecution ==
    (rootRun /\ runState # "idle" /\ prev.valid) =>
        \A n \in Edited :
            /\ fingerprintOf(n, src[func[n]]) # fingerprintOf(n, prev.src[func[n]])
            /\ \A m \in {n} \cup descendants(n) : status[m] # "loaded"

\* C3: a node whose step function is marked never-cache is never loaded, is
\* executed in every completed run of the root, and no blob is ever at its path.
C3_NeverCacheAlwaysExecutes ==
    \A n \in Nodes :
        func[n] \in never_cache =>
            /\ status[n] # "loaded"
            /\ ~check_cache(n)
            /\ CompletedRootRun => status[n] = "executed"

\* C4: after a completed run of the root every file of the cache directory is
\* the cache path of a node loaded or executed in that run.
C4_OnlyVisitedFilesRemain ==
    CompletedRootRun =>
        DOMAIN disk \subseteq {cache_path(n) : n \in {m \in Nodes : Visited(m)}}

\* C5: the state a child's step function is given is its parent's output state,
\* whatever earlier children and their subtrees did, and whether the parent was
\* executed or loaded: every frame waiting to start sees the parent's output
\* in data, and every executed child's result is its step function applied to
\* the parent's output.
C5_SiblingsReceiveParentOutput ==
    /\ \A d \in 2..Len(stack) :
           stack[d].phase = "enter" => heap[stack[d].data] = out[stack[d - 1].node]
    /\ \A n \in Nodes :
           (runState # "idle" /\ n # runNode /\ status[n] = "executed")
           => out[n] = Apply(func[n], src[func[n]], out[parent[n]])

\* A loaded node whose two children were both executed.
C5_Witness ==
    \E p \in Nodes :
        /\ Len(children[p]) = 2
        /\ status[p] = "loaded"
        /\ status[children[p][1]] = "executed"
        /\ status[children[p][2]] = "executed"

\* C6: when exactly one node, not the root, has its source edited between two
\* completed runs of the root, the second run executes that node and its
\* descendants and loads every other node, and afterwards the directory holds
\* one blob per node and none at the edited node's old path.
C6_EditOneNode ==
    (CompletedRootRun /\ prev.valid /\ Cardinality(Edited) = 1 /\ 1 \notin Edited) =>
        LET e == CHOOSE n \in Edited : TRUE
        IN /\ \A n \in Nodes :
                  status[n] = IF n \in {e} \cup descendants(e) THEN "executed" ELSE "loaded"
           /\ Cardinality(DOMAIN disk) = Len(func)
           /\ cache_pathOf(e, prev.src[func[e]]) \notin DOMAIN disk

\* The step in which the step function of the node on top of the stack raises.
StepRaised == stack # <<>> /\ abortCause = "none" /\ abortCause' = "step"

\* C7: when a step function raises, the top-level run() call fails, no file is
\* written or changed, and no other node is loaded or executed: every frame
\* is left, so nothing of the run goes on.
C7_StepFailureAborts ==
    [][StepRaised =>
          /\ runState' = "aborted"
          /\ stack' = <<>>
          /\ disk' = disk
          /\ \A m \in Nodes \ {top.node} : status'[m] = status[m]]_vars

\* A run aborted by the first of two children, the second never started.
C7_Witness ==
    /\ runState = "aborted"
    /\ abortCause = "step"
    /\ \E p \in Nodes :
           /\ Len(children[p]) = 2
           /\ status[children[p][1]] = "failed"
           /\ status[children[p][2]] = "pending"

\* The node on top of the stack is about to read a blob that cannot be read.
CorruptBlob ==
    /\ stack # <<>>
    /\ top.phase = "enter"
    /\ ~top.refresh
    /\ check_cache(top.node)
    /\ ~disk[cache_path(top.node)].valid

\* C8: an unreadable blob is a cache miss: the node is executed, the blob is
\* replaced by a valid one and the children are refreshed (unless the step
\* function or the save fails).
C8_CorruptBlobIsCacheMiss ==
    [][CorruptBlob =>
          \/ /\ status'[top.node] = "executed"
             /\ disk'[cache_path(top.node)].valid
             /\ stack'[depth].refresh
          \/ abortCause' \in {"step", "save"}]_vars

\* The step in which _save_cache of the node on top of the stack raises.
SaveRaised == stack # <<>> /\ abortCause = "none" /\ abortCause' = "save"

\* C9: when saving a blob fails, the run() call fails and the blob that was at
\* the path before, if any, is still there, unchanged.
C9_FailedSaveKeepsOldBlob ==
    [][SaveRaised =>
          /\ runState' = "aborted"
          /\ check_cache(top.node) =>
                /\ cache_path(top.node) \in DOMAIN disk'
                /\ disk'[cache_path(top.node)] = disk[cache_path(top.node)]]_vars

\* C10: _cleanup_cache_files is called once in a completed run of the root,
\* when every node has been loaded or executed and the root returns; it is not
\* called before, nor in a run that fails, nor in a run started on another
\* node, which deletes no file.
C10_State ==
    /\ CompletedRootRun => gcCount = 1 /\ \A n \in Nodes : Visited(n)
    /\ runState \in {"running", "aborted"} => gcCount = 0
    /\ ~rootRun => gcCount = 0

C10_Step ==
    /\ gcCount' > gcCount => stack' = <<>> /\ runState' = "done" /\ rootRun
    /\ (stack # <<>> /\ ~rootRun) => DOMAIN disk \subseteq DOMAIN disk'

C10_CleanupOncePerRootRun == []C10_State /\ [][C10_Step]_vars

\* A completed run of the root of a full tree, every node executed, that has
\* cleaned up once.
C10_Witness ==
    /\ CompletedRootRun
    /\ Len(func) = MaxNodes
    /\ gcCount = 1
    /\ \A n \in Nodes : status[n] = "executed"

\* C11: when a run of the root starts, the root's registered paths are empty,
\* and when the run has completed (the cleanup has run) they are the cache
\* paths of the nodes loaded or executed in that run, no path of an earlier run.
C11_RegisteredOnlyThisRun ==
    /\ (rootRun /\ runState = "running" /\ log = << <<"run", 1>> >>) => registered = {}
    /\ CompletedRootRun => registered = {cache_path(n) : n \in {m \in Nodes : Visited(m)}}

\* C12: when the source of a node's step function is edited, the fingerprint
\* and the cache path of that node and of each of its descendants change, so
\* the blob at a descendant's old path is not at its path after the edit.
C12_EditChangesSubtreeFingerprints ==
    [][\A n \in Nodes :
          src'[func[n]] # src[func[n]] =>
              \A m \in {n} \cup descendants(n) :
                  /\ fingerprintOf(m, src'[func[m]]) # fingerprintOf(m, src[func[m]])
                  /\ cache_pathOf(m, src'[func[m]]) # cache_pathOf(m, src[func[m]])]_vars

\* What the log says of node n, in order.
Events(n) ==
    LET of_n == SelectSeq(log, LAMBDA e : e[2] = n)
    IN [i \in 1..Len(of_n) |-> of_n[i][1]]

IsPrefix(s, t) == Len(s) <= Len(t) /\ s = SubSeq(t, 1, Len(s))

WhenExecuted == <<"run", "func", "save", "return">>
WhenLoaded == <<"run", "load", "return">>

\* A step of a run in which nothing raises but an unreadable blob.
Proceed == Execute \/ Load \/ LoadFails \/ Call \/ Return

\* C13, states: at any moment of a run every node has gone through a prefix
\* of run() entered, then either the step function called and the blob saved
\* or the blob loaded, then run() returned; so no node is entered twice, none
\* has its step function called twice, none is both loaded and executed. When
\* the run has completed, every node of the tree the run was called on has
\* gone through the whole of one of the two, and no other node has done a thing.
\* A run in progress can always take a step.
C13_State ==
    /\ \A n \in Nodes :
           IsPrefix(Events(n), WhenExecuted) \/ IsPrefix(Events(n), WhenLoaded)
    /\ runState = "done" =>
           \A n \in Nodes :
               IF n \in {runNode} \cup descendants(runNode)
               THEN Events(n) \in {WhenExecuted, WhenLoaded}
               ELSE Events(n) = <<>>
    /\ runState = "running" => stack # <<>> /\ ENABLED Proceed

\* C13, steps: every step of a run in progress adds to the log or ends the run.
C13_Step == stack # <<>> => (Len(log') > Len(log) \/ stack' = <<>>)

\* C13: a run is over after finitely many steps (each step of a run adds an
\* event to the log, which holds at most four events for each node, and a run
\* in progress is never stuck), and each node is visited once, in the order
\* pending, loaded or executed, propagated.
C13_RunVisitsEachNodeOnce == []C13_State /\ [][C13_Step]_vars

\* A completed run of the root of a full tree in which a node was loaded and
\* another executed.
C13_Witness ==
    /\ CompletedRootRun
    /\ Len(func) = MaxNodes
    /\ \E n \in Nodes : Events(n) = WhenLoaded
    /\ \E n \in Nodes : Events(n) = WhenExecuted

\* Where in the log node n did ev first, 0 if it has not.
Pos(ev, n) ==
    IF \E i \in 1..Len(log) : log[i] = <<ev, n>>
    THEN CHOOSE i \in 1..Len(log) :
             log[i] = <<ev, n>> /\ \A j \in 1..(i - 1) : log[j] # <<ev, n>>
    ELSE 0

\* Node n has been entered and left in the current run.
Finished(n) == Events(n) \in {WhenExecuted, WhenLoaded}

\* C14: when run() is entered for a child from its parent's loop (not called
\* on it from the top level), its parent has been loaded, or
\* executed and saved, and every child added before it has been left with all
\* of its subtree: children run in the order of then(), depth first, one
\* after the other.
C14_ChildrenInOrderDepthFirst ==
    \A p \in Nodes :
        \A k \in 1..Len(children[p]) :
            LET c == children[p][k]
            IN (Pos("run", c) # 0 /\ c # runNode) =>
                   /\ \/ 0 < Pos("load", p) /\ Pos("load", p) < Pos("run", c)
                      \/ 0 < Pos("save", p) /\ Pos("save", p) < Pos("run", c)
                   /\ \A j \in 1..(k - 1) :
                          \A m \in {children[p][j]} \cup descendants(children[p][j]) :
                              Finished(m) /\ Pos("return", m) < Pos("run", c)

\* The second child of the root has been entered after the first child's
\* subtree, which is deeper than the child alone, was run.
C14_Witness ==
    /\ runState = "running"
    /\ Len(children[1]) = 2
    /\ descendants(children[1][1]) # {}
    /\ Pos("run", children[1][2]) # 0
    /\ \E m \in descendants(children[1][1]) : status[m] = "executed"

\* The places (p, i) at which node n stands in a child list.
Places(n) == {pi \in Nodes \X (1..MaxNodes) :
                 pi[2] <= Len(children[pi[1]]) /\ children[pi[1]][pi[2]] = n}

\* C15, states: the nodes form a tree. The root has no parent and is in no
\* child list; every other node has an older node as its parent, stands once
\* in its parent's child list and in no other, and has its parent's cache
\* directory.
C15_State ==
    /\ Len(parent) = Len(func) /\ Len(children) = Len(func) /\ Len(cache_dir) = Len(func)
    /\ parent[1] = 0
    /\ Places(1) = {}
    /\ \A n \in Nodes \ {1} :
           /\ parent[n] \in 1..(n - 1)
           /\ Cardinality(Places(n)) = 1
           /\ \A pi \in Places(n) : pi[1] = parent[n]
           /\ cache_dir[n] = cache_dir[parent[n]]

\* C15, steps: then() calls no step function and touches no file or state
\* object; the new node's parent is the receiver p, its cache directory is
\* p's, it has no children, it is appended to p's children as the last one,
\* and nothing else of the tree changes.
C15_Step ==
    Len(func') = Len(func) + 1 =>
        LET new == Len(func) + 1
            p == parent'[new]
        IN /\ p \in Nodes
           /\ disk' = disk /\ dirExists' = dirExists /\ heap' = heap
           /\ registered' = registered
           /\ \A i \in 1..Len(log') : log'[i][1] # "func"
           /\ cache_dir'[new] = cache_dir[p]
           /\ children'[new] = <<>>
           /\ children'[p] = Append(children[p], new)
           /\ \A q \in Nodes \ {p} : children'[q] = children[q]
           /\ \A q \in Nodes :
                  parent'[q] = parent[q] /\ func'[q] = func[q] /\ cache_dir'[q] = cache_dir[q]

\* C15: Analysis(...) and then() build a tree, and then() does nothing else.
C15_ThenBuildsTree == []C15_State /\ [][C15_Step]_vars

\* then() was called twice on the root and the second node is its last child.
C15_Witness ==
    /\ Len(func) = MaxNodes
    /\ runs = 0
    /\ Len(children[1]) = 2
    /\ children[1][2] = Len(func)

\* No other node has the names and the function of n: a path of n's is n's alone.
Unaliased(n) ==
    \A m \in Nodes \ {n} : func[m] # func[n] \/ traceNames(m) # traceNames(n)

\* C16: the fingerprint and the cache path of a node are computed once for
\* the Analysis object: the path the node's calls of _cache_path() return in
\* the current run is the one those of an earlier run on the same object
\* returned and registered, whatever happened to the source text in between.
C16_FingerprintComputedOnce ==
    \A n \in Nodes :
        (Unaliased(n) /\ Visited(n)) =>
            \A v \in Versions :
                cache_pathOf(n, v) \in registered => cache_pathOf(n, v) = cache_path(n)

\* C17: while a run goes on and when it has completed, the blob at the path of
\* a node executed in it is readable and holds the state the node's step
\* function returned, whatever the nodes run after it did.
C17_BlobIsSnapshot ==
    \A n \in Nodes :
        (status[n] = "executed" /\ runState \in {"running", "done"}) =>
            /\ check_cache(n)
            /\ disk[cache_path(n)].valid
            /\ loads(disk[cache_path(n)]) = out[n]

\* A completed run in which a node and a descendant of it were executed, the
\* descendant's state being another than the node's, saved after it.
C17_Witness ==
    /\ runState = "done"
    /\ \E n \in Nodes :
           \E m \in descendants(n) :
               /\ status[n] = "executed"
               /\ status[m] = "executed"
               /\ out[m] # out[n]
               /\ Pos("save", n) < Pos("save", m)
               /\ loads(disk[cache_path(n)]) = out[n]

\* C18: after a completed run of the root, whatever runs and edits came
\* before, every node's state is its current step function applied to its
\* parent's state of that run, the root's to the empty state.
C18_ResultsMatchCurrentSources ==
    CompletedRootRun =>
        \A n \in Nodes :
            out[n] = Apply(func[n], src[func[n]],
                           IF n = 1 THEN <<>> ELSE out[parent[n]])

\* C19, states: the default argument data={} is empty, and a node on which
\* run() was called from the top level and which was executed has the state
\* its step function makes of the empty state.
C19_State ==
    /\ heap[0] = <<>>
    /\ (runState # "idle" /\ status[runNode] = "executed") =>
           out[runNode] = Apply(func[runNode], src[func[runNode]], <<>>)

\* C19, steps: no step changes the object a frame of run() was given as data
\* (when an exception ends the run, the objects made during it are garbage).
C19_Step ==
    \A d \in 1..Len(stack) :
        \/ heap'[stack[d].data] = heap[stack[d].data]
        \/ stack[d].data # 0 /\ stack' = <<>> /\ runState' = "aborted"

\* C19: run() does not change the state object it is given, the shared default
\* {} included, so every run() called without arguments starts from the empty
\* state.
C19_RunLeavesDataAlone == []C19_State /\ [][C19_Step]_vars

\* The root was executed, with a child executed after it, in a run that is
\* not the first of the process: paths of an earlier run are registered.
C19_Witness ==
    /\ CompletedRootRun
    /\ runs >= 2
    /\ \E path \in registered : path \notin {cache_path(n) : n \in Nodes}
    /\ status[1] = "executed"
    /\ out[1] = Apply(func[1], src[func[1]], <<>>)
    /\ \E c \in Nodes \ {1} : status[c] = "executed"

====
